---- MODULE Spec2Model ----
(***************************************************************************)
(* Reaching-definitions abstract domain of the `analysis` crate            *)
(* (abstract_domains/reaching_definitions.rs) and the worklist fixpoint    *)
(* driver that runs it over the control-flow graph of one MIR body.        *)
(*                                                                         *)
(* The domain operations are translated from the Rust source.  The driver  *)
(* is not part of the available sources and is modelled from section 4.2   *)
(* of the specification.                                                    *)
(***************************************************************************)
EXTENDS Integers, Sequences, FiniteSets, Bags, TLC

\* ------------------------------------------------------------------ bounds
\* Number of local variables of a body.
NumLocals == 2
\* Size of a body analysed by the driver: blocks + statements + CFG edges.
MaxSize == 5
\* Statements of the block the domain operations are called on directly.
MaxStmts == 2

Locals == 1..NumLocals

\* ------------------------------------------------------------------ MIR
\* Option<T>: None is the empty sequence, Some(x) the one-element sequence.
None == <<>>
Some(x) == <<x>>

\* mir::Place: a local with a (possibly empty) list of projections.
Place(local, projection) == [local |-> local, projection |-> projection]
BarePlaces == {Place(l, <<>>) : l \in Locals}
ProjectionElems == {"Field", "Index", "Deref"}
ProjectedPlaces == {Place(1, <<elem>>) : elem \in ProjectionElems}

\* Place::as_local: Some(local) iff the place has no projection.
as_local(place) == IF place.projection = <<>> THEN Some(place.local) ELSE None

\* mir::Location
Location(block, statement_index) ==
    [block |-> block, statement_index |-> statement_index]

\* mir::StatementKind: Assign(place, rvalue) or any other kind.
Assign(place) == [kind |-> "Assign", place |-> Some(place)]
Nop == [kind |-> "StorageLive", place |-> None]

\* mir::TerminatorKind: Call { destination, cleanup, .. } or another kind,
\* of which only the successors matter.
Call(destination, cleanup) ==
    [kind |-> "Call", destination |-> destination, cleanup |-> cleanup,
     targets |-> <<>>]
Return == [kind |-> "Return", destination |-> None, cleanup |-> None,
           targets |-> <<>>]
Goto(bb) == [kind |-> "Goto", destination |-> None, cleanup |-> None,
             targets |-> <<bb>>]
SwitchInt(bb1, bb2) ==
    [kind |-> "SwitchInt", destination |-> None, cleanup |-> None,
     targets |-> <<bb1, bb2>>]

\* Terminator::successors() of a terminator that is not a call.
successors(terminator) == terminator.targets

\* Blocks of a body, and the location of a block's terminator.
BasicBlocks(mir) == DOMAIN mir
terminator_loc(mir, bb) == Location(bb, Len(mir[bb].statements))
StatementLocations(mir) ==
    UNION {{Location(bb, i - 1) : i \in 1..Len(mir[bb].statements)}
           : bb \in BasicBlocks(mir)}

\* ------------------------------------------------- ReachingDefsState
\* The state is its one field reaching_assignments, a HashMap from locals
\* to HashSets of locations: a function whose domain is the key set.
EmptyMap == [l \in {} |-> {}]

\* The set of a local in a state, empty when the local is no key.
SetOf(state, v) == IF v \in DOMAIN state THEN state[v] ELSE {}

\* HashMap::entry(key).or_insert(HashSet::new())
or_insert(reaching_assignments, key) ==
    IF key \in DOMAIN reaching_assignments
    THEN reaching_assignments
    ELSE [l \in DOMAIN reaching_assignments \cup {key} |->
            IF l = key THEN {} ELSE reaching_assignments[l]]

\* assignment_set.clear(); assignment_set.insert(location) on the entry of
\* local.
set_single(reaching_assignments, local, location) ==
    LET m == or_insert(reaching_assignments, local)
        cleared == [m EXCEPT ![local] = {}]
    IN [cleared EXCEPT ![local] = cleared[local] \cup {location}]

new_bottom == EmptyMap

\* A new_initial that takes the passing of the argument _1 as a definition
\* at the function entry.
new_initial_arguments == [l \in {1} |-> {Location(0, 0)}]

new_initial == new_bottom

\* A need_to_widen that asks for widening from the first revisit on.
need_to_widen_revisit(counter) == counter >= 1

need_to_widen(counter) == FALSE

\* A join that overwrites the set of a key instead of inserting into it.
join_overwrite(self, other) ==
    [l \in DOMAIN self \cup DOMAIN other |->
        IF l \in DOMAIN other THEN other[l] ELSE self[l]]

\* A join that inserts the set of other only for a key self does not hold
\* yet.
join_keep_existing(self, other) ==
    [l \in DOMAIN self \cup DOMAIN other |->
        IF l \in DOMAIN self THEN self[l] ELSE other[l]]

\* A join that inserts the assignments of every local of other into the
\* set of every key.
join_spill(self, other) ==
    LET all == UNION {other[l] : l \in DOMAIN other}
    IN [l \in DOMAIN self \cup DOMAIN other |->
          (IF l \in DOMAIN self THEN self[l] ELSE {}) \cup all]

\* A join that creates the entry of a key self does not hold yet but
\* inserts only into the entries self held.
join_new_key_empty(self, other) ==
    [l \in DOMAIN self \cup DOMAIN other |->
        IF l \in DOMAIN self THEN self[l] \cup SetOf(other, l) ELSE {}]

\* The loop of join over the entries of other, in any iteration order.
RECURSIVE join_locals(_, _, _)
join_locals(self, other, todo) ==
    IF todo = {} THEN self
    ELSE LET local == CHOOSE l \in todo : TRUE
             m == or_insert(self, local)
             assignments == m[local] \cup other[local]
         IN join_locals([m EXCEPT ![local] = assignments], other,
                        todo \ {local})

join(self, other) == join_locals(self, other, DOMAIN other)

\* A widen that returns without touching self.
widen_noop(self, previous) == [panic |-> FALSE, self |-> self]

\* widen is unimplemented!(): it panics whatever its arguments.
widen(self, previous) == [panic |-> TRUE, self |-> self]

Ok(value) == [result |-> "Ok", value |-> value]

\* apply_statement_effect taking the base local of any place, projected
\* or not, as the assigned local.
apply_statement_effect_base_local(self, location, mir) ==
    LET stmt == mir[location.block].statements[location.statement_index + 1]
    IN IF stmt.kind = "Assign"
       THEN Ok(set_single(self, stmt.place[1].local, location))
       ELSE Ok(self)

\* apply_statement_effect rejecting the statements it has no effect for.
apply_statement_effect_strict(self, location, mir) ==
    LET stmt == mir[location.block].statements[location.statement_index + 1]
    IN IF stmt.kind = "Assign" /\ as_local(stmt.place[1]) # None
       THEN Ok(set_single(self, as_local(stmt.place[1])[1], location))
       ELSE [result |-> "Err", value |-> "UnsupportedConstruct"]

\* apply_statement_effect inserting the location only under a key the
\* state does not hold yet.
apply_statement_effect_first_only(self, location, mir) ==
    LET stmt == mir[location.block].statements[location.statement_index + 1]
    IN IF stmt.kind = "Assign" /\ as_local(stmt.place[1]) # None
          /\ as_local(stmt.place[1])[1] \notin DOMAIN self
       THEN Ok(set_single(self, as_local(stmt.place[1])[1], location))
       ELSE Ok(self)

\* apply_statement_effect without the clear(): a weak update.
apply_statement_effect_weak(self, location, mir) ==
    LET stmt == mir[location.block].statements[location.statement_index + 1]
    IN IF stmt.kind = "Assign" /\ as_local(stmt.place[1]) # None
       THEN LET local == as_local(stmt.place[1])[1]
                m == or_insert(self, local)
            IN Ok([m EXCEPT ![local] = m[local] \cup {location}])
       ELSE Ok(self)

apply_statement_effect(self, location, mir) ==
    LET stmt == mir[location.block].statements[location.statement_index + 1]
    IN IF stmt.kind = "Assign"
       THEN LET local == as_local(stmt.place[1])
            IN IF local # None
               THEN Ok(set_single(self, local[1], location))
               ELSE Ok(self)
       ELSE Ok(self)

\* The Call arm pushing the destination state on the cleanup edge too.
call_effect_cleanup_defined(self, location, terminator) ==
    LET dest_state ==
            IF terminator.destination # None
               /\ as_local(terminator.destination[1][1]) # None
            THEN set_single(self,
                            as_local(terminator.destination[1][1])[1],
                            location)
            ELSE self
    IN (IF terminator.destination # None
        THEN <<<<terminator.destination[1][2], dest_state>>>>
        ELSE <<>>)
       \o (IF terminator.cleanup # None
           THEN <<<<terminator.cleanup[1], dest_state>>>>
           ELSE <<>>)

\* The Call arm taking the base local of any destination place, projected
\* or not, as the local the call defines.
call_effect_base_local(self, location, terminator) ==
    (IF terminator.destination # None
     THEN <<<<terminator.destination[1][2],
              set_single(self, terminator.destination[1][1].local,
                         location)>>>>
     ELSE <<>>)
    \o (IF terminator.cleanup # None
        THEN <<<<terminator.cleanup[1], self>>>>
        ELSE <<>>)

\* The Call arm of apply_terminator_effect: its res_vec.
call_effect(self, location, terminator) ==
    LET res_dest ==
            IF terminator.destination # None
            THEN LET place == terminator.destination[1][1]
                     bb == terminator.destination[1][2]
                     local == as_local(place)
                     dest_state ==
                         IF local # None
                         THEN set_single(self, local[1], location)
                         ELSE self
                 IN <<<<bb, dest_state>>>>
            ELSE <<>>
        res_cleanup ==
            IF terminator.cleanup # None
            THEN <<<<terminator.cleanup[1], self>>>>
            ELSE <<>>
    IN res_dest \o res_cleanup

\* The default arm stopping one successor early.
successors_effect_short(self, terminator) ==
    [i \in 1..(Len(successors(terminator)) - 1) |->
        <<successors(terminator)[i], self>>]

\* The default arm of apply_terminator_effect: its res_vec.
successors_effect(self, terminator) ==
    [i \in 1..Len(successors(terminator)) |->
        <<successors(terminator)[i], self>>]

apply_terminator_effect(self, location, mir) ==
    LET terminator == mir[location.block].terminator
    IN IF terminator.kind = "Call"
       THEN Ok(call_effect(self, location, terminator))
       ELSE Ok(successors_effect(self, terminator))

\* ------------------------------------------------------- analysed bodies
\* Statements and terminators the bodies are built from.  A body is a
\* function from its blocks 0..n-1 to [statements, terminator].
AssignStatements == {Assign(p) : p \in BarePlaces}
Terminators(e, n) ==
    CASE e = 0 -> {Return}
      [] e = 1 -> {Goto(bb) : bb \in 0..(n - 1)}
                  \cup {Call(Some(<<p, bb>>), None)
                        : p \in BarePlaces, bb \in 0..(n - 1)}
      [] e = 2 -> {SwitchInt(b1, b2)
                   : b1 \in 0..(n - 1), b2 \in 0..(n - 1)}
                  \cup {Call(Some(<<p, bb>>), Some(cl))
                        : p \in BarePlaces, bb \in 0..(n - 1),
                          cl \in 0..(n - 1)}
      [] OTHER -> {}

\* Blocks of n-block bodies with s statements and edges in total.
BlocksOfSize(s, n) ==
    UNION {{[statements |-> ss, terminator |-> t]
            : ss \in [1..(s - e) -> AssignStatements \cup {Nop}],
              t \in Terminators(e, n)}
           : e \in 0..(IF s < 2 THEN s ELSE 2)}

\* ------------------------------------------------------------- driver
VARIABLES mir, seeding, entry_state, revisit_count, worklist, status, fault
VARIABLES steps, peer
VARIABLES self, other, old_self, call, at, ret
VARIABLES outer_attr_kind, outer_attr_tokens, item_tokens, rewritten

\* The arguments and the result of rewrite_prusti_attributes: the analysis
\* never touches them.
macroVars == <<outer_attr_kind, outer_attr_tokens, item_tokens, rewritten>>
driverVars ==
    <<mir, seeding, entry_state, revisit_count, worklist, status, fault,
      steps, peer, macroVars>>
callVars == <<self, other, old_self, call, at, ret>>
vars == <<driverVars, callVars>>

START_BLOCK == 0

\* The driver's state as one value: what an iteration reads and returns.
Driver(es, rc, wl, st) ==
    [entry_state |-> es, revisit_count |-> rc, worklist |-> wl, status |-> st]

\* Initialization: new_initial for the entry block, new_bottom for every
\* other block, no revisit yet, the worklist seeded with all blocks or with
\* the entry block only.
driver_init(body, seed) ==
    Driver([bb \in BasicBlocks(body) |->
               IF bb = START_BLOCK THEN new_initial ELSE new_bottom],
           [bb \in BasicBlocks(body) |-> 0],
           IF seed = "all" THEN SetToBag(BasicBlocks(body))
                           ELSE SetToBag({START_BLOCK}),
           "running")

\* A value computed once and kept in a local, as the code keeps it.
Bind(value, Then(_)) == CHOOSE r \in {Then(x) : x \in {value}} : TRUE

\* Result::Err of a transfer function.
Err(error) == [result |-> "Err", value |-> error]

\* The driver's calls of the transfer functions of its domain.  The
\* reaching-definitions functions return Ok for every input; fault is the
\* location, if any, at which the domain under the driver returns an
\* UnsupportedConstruct error instead.
statement_effect(working, location, body) ==
    IF fault = Some(location) THEN Err("UnsupportedConstruct")
    ELSE apply_statement_effect(working, location, body)

terminator_effect(working, location, body) ==
    IF fault = Some(location) THEN Err("UnsupportedConstruct")
    ELSE apply_terminator_effect(working, location, body)

\* Step 2: apply_statement_effect on the working copy for the statements
\* i..n of block bb, stopping at the first error.
RECURSIVE apply_statements(_, _, _, _)
apply_statements(working, body, bb, i) ==
    IF i > Len(body[bb].statements) THEN Ok(working)
    ELSE Bind(statement_effect(working, Location(bb, i - 1), body),
              LAMBDA r : IF r.result = "Ok"
                         THEN apply_statements(r.value, body, bb, i + 1)
                         ELSE r)

\* Step 4 pushing the successor whether or not it is pending already.
merge_edge_push_again(d, succ, candidate_state) ==
    Bind(join(d.entry_state[succ], candidate_state),
         LAMBDA merged :
           IF d.status # "running" \/ merged = d.entry_state[succ] THEN d
           ELSE [d EXCEPT
                   !.entry_state[succ] = merged,
                   !.revisit_count[succ] = @ + 1,
                   !.worklist = @ (+) SetToBag({succ})])

\* Step 4 for one (successor, candidate_state) pair.
merge_edge(d, succ, candidate_state) ==
    Bind(join(d.entry_state[succ], candidate_state),
         LAMBDA merged :
           IF d.status # "running" \/ merged = d.entry_state[succ] THEN d
           ELSE LET w == IF need_to_widen(d.revisit_count[succ])
                         THEN widen(merged, d.entry_state[succ])
                         ELSE [panic |-> FALSE, self |-> merged]
                IN IF w.panic
                   THEN [d EXCEPT !.status = "panicked"]
                   ELSE [d EXCEPT
                           !.entry_state[succ] = w.self,
                           !.revisit_count[succ] = @ + 1,
                           !.worklist = IF BagIn(succ, @) THEN @
                                        ELSE @ (+) SetToBag({succ})])

\* Step 4 for the pairs i..n of the list the terminator returned.
RECURSIVE merge_edges(_, _, _)
merge_edges(d, res_vec, i) ==
    IF i > Len(res_vec) THEN d
    ELSE Bind(merge_edge(d, res_vec[i][1], res_vec[i][2]),
              LAMBDA merged_d : merge_edges(merged_d, res_vec, i + 1))

\* An iteration that applies the statements to the entry state of bb
\* itself instead of a working copy.
process_block_in_place(d, body, bb) ==
    Bind(apply_statements(d.entry_state[bb], body, bb, 1),
         LAMBDA working :
           IF working.result # "Ok" THEN [d EXCEPT !.status = "error"]
           ELSE Bind(terminator_effect(working.value,
                                       terminator_loc(body, bb), body),
                     LAMBDA res :
                       IF res.result # "Ok"
                       THEN [d EXCEPT !.status = "error"]
                       ELSE merge_edges(
                              [d EXCEPT !.entry_state[bb] = working.value],
                              res.value, 1)))

\* An iteration that recovers from an error: a failed statement loop
\* falls back to the entry state of bb, a failed terminator emits nothing.
process_block_recover(d, body, bb) ==
    Bind(apply_statements(d.entry_state[bb], body, bb, 1),
         LAMBDA working :
           Bind(terminator_effect(IF working.result = "Ok"
                                  THEN working.value
                                  ELSE d.entry_state[bb],
                                  terminator_loc(body, bb), body),
                LAMBDA res :
                  IF res.result # "Ok" THEN d
                  ELSE merge_edges(d, res.value, 1)))

\* One iteration for the popped block bb (steps 1 to 4); an error of a
\* transfer function aborts the analysis.
process_block(d, body, bb) ==
    Bind(apply_statements(d.entry_state[bb], body, bb, 1),
         LAMBDA working :
           IF working.result # "Ok" THEN [d EXCEPT !.status = "error"]
           ELSE Bind(terminator_effect(working.value,
                                       terminator_loc(body, bb), body),
                     LAMBDA res :
                       IF res.result # "Ok"
                       THEN [d EXCEPT !.status = "error"]
                       ELSE merge_edges(d, res.value, 1)))

pop(d, bb) == [d EXCEPT !.worklist = @ (-) SetToBag({bb})]

Pending == BagToSet(worklist)

\* No attribute macro is being expanded.
NoMacro ==
    /\ outer_attr_kind = "none"
    /\ outer_attr_tokens = ""
    /\ item_tokens = None
    /\ rewritten = None

\* The body is any body of at most MaxSize blocks, statements and edges:
\* n blocks, the blocks k+1..n still to be chosen within the budget left.
RECURSIVE ChooseBody(_, _, _, _)
ChooseBody(k, budget, n, acc) ==
    IF k = n THEN mir = [bb \in 0..(n - 1) |-> acc[bb + 1]]
    ELSE \E s \in 0..budget : \E d \in BlocksOfSize(s, n) :
            ChooseBody(k + 1, budget - s, n, Append(acc, d))

DriverInit ==
    /\ \E n \in 1..MaxSize : ChooseBody(0, MaxSize - n, n, <<>>)
    /\ seeding \in {"all", "entry"}
    /\ LET d == driver_init(mir, seeding)
       IN /\ entry_state = d.entry_state
          /\ revisit_count = d.revisit_count
          /\ worklist = d.worklist
          /\ status = d.status
    /\ steps = 0
    /\ peer = None
    /\ NoMacro

\* ret before any call has returned.
NoReturn == [result |-> "none", value |-> <<>>]

NoCall ==
    /\ self = new_bottom
    /\ other = new_bottom
    /\ old_self = new_bottom
    /\ call = "none"
    /\ at = Location(START_BLOCK, 0)
    /\ ret = NoReturn

\* The domain under the driver is the reaching-definitions domain.
NoFault == fault = None

Init == DriverInit /\ NoCall /\ NoFault

\* The driver pops a pending block and processes it; steps counts the
\* blocks popped so far.
Step(bb) ==
    /\ status = "running"
    /\ bb \in Pending
    /\ \E d \in {process_block(
                    pop(Driver(entry_state, revisit_count, worklist, status),
                        bb), mir, bb)} :
          /\ entry_state' = d.entry_state
          /\ revisit_count' = d.revisit_count
          /\ worklist' = d.worklist
          /\ status' = d.status
    /\ steps' = steps + 1
    /\ UNCHANGED <<mir, seeding, fault, peer, macroVars, callVars>>

\* The worklist is empty: the mapping block -> entry state is frozen.
Freeze ==
    /\ status = "running"
    /\ Pending = {}
    /\ status' = "done"
    /\ UNCHANGED <<mir, seeding, entry_state, revisit_count, worklist,
                   fault, steps, peer, macroVars, callVars>>

Next == (\E bb \in BasicBlocks(mir) : Step(bb)) \/ Freeze

Spec == Init /\ [][Next]_vars

Drained == status = "done"

\* The run that always pops the least pending block.
RECURSIVE run_least_first(_, _)
run_least_first(d, body) ==
    IF d.status # "running" \/ BagToSet(d.worklist) = {} THEN d
    ELSE LET bb == CHOOSE b \in BagToSet(d.worklist) :
                      \A c \in BagToSet(d.worklist) : b <= c
         IN Bind(process_block(pop(d, bb), body, bb),
                 LAMBDA next : run_least_first(next, body))

final_entry_state(body, seed) ==
    run_least_first(driver_init(body, seed), body).entry_state

\* ---------------------------------------------------- CFG paths
\* The edges leaving block bb: the target and, for the success edge of a
\* call, the local the call defines.
Edges(body, bb) ==
    LET t == body[bb].terminator
    IN IF t.kind = "Call"
       THEN {[target |-> t.destination[i][2],
              def |-> as_local(t.destination[i][1]), nth |-> 0]
             : i \in 1..Len(t.destination)}
            \cup {[target |-> t.cleanup[i], def |-> None, nth |-> 1]
                  : i \in 1..Len(t.cleanup)}
       ELSE {[target |-> t.targets[i], def |-> None, nth |-> i]
             : i \in 1..Len(t.targets)}

\* The statements of bb from index i on that assign to the bare local v.
AssignsAfter(body, bb, v, i) ==
    {j \in i..Len(body[bb].statements) :
        /\ body[bb].statements[j].kind = "Assign"
        /\ body[bb].statements[j].place[1] = Place(v, <<>>)}

\* Definition sites of v: assignments to the bare local v and calls whose
\* destination is the bare local v.
DefSites(body, v) ==
    UNION {{Location(bb, j - 1) : j \in AssignsAfter(body, bb, v, 1)}
           : bb \in BasicBlocks(body)}
    \cup {terminator_loc(body, bb) : bb \in
            {c \in BasicBlocks(body) :
               \E e \in Edges(body, c) : e.def = Some(v)}}

\* Block entries reached from the end of bb without a definition of v on
\* the edge.
Leaves(body, bb, v) ==
    {e.target : e \in {x \in Edges(body, bb) : x.def # Some(v)}}

\* Block entries reached from definition site d of v before any other
\* definition of v.
FirstEntries(body, d, v) ==
    IF d = terminator_loc(body, d.block)
    THEN {e.target : e \in {x \in Edges(body, d.block) : x.def = Some(v)}}
    ELSE IF AssignsAfter(body, d.block, v, d.statement_index + 2) = {}
         THEN Leaves(body, d.block, v)
         ELSE {}

\* Closure of a set of block entries under crossing a block that does not
\* define v.
RECURSIVE Closure(_, _, _)
Closure(body, v, seen) ==
    LET more == UNION {IF AssignsAfter(body, bb, v, 1) = {}
                       THEN Leaves(body, bb, v) ELSE {} : bb \in seen}
    IN IF more \subseteq seen THEN seen
       ELSE Closure(body, v, seen \cup more)

\* The definitions of v that reach the entry of bb along some path.
MayReach(body, bb, v) ==
    {d \in DefSites(body, v) :
        bb \in Closure(body, v, FirstEntries(body, d, v))}

\* The state at the end of the statements of bb, from state s.
transfer(body, bb, s) == apply_statements(s, body, bb, 1).value

\* The pairs the terminator of bb emits from the state at the end of bb.
emitted(body, bb, s) ==
    apply_terminator_effect(transfer(body, bb, s),
                            terminator_loc(body, bb), body).value

\* The blocks on a CFG path from the entry block.
RECURSIVE ReachableFrom(_, _)
ReachableFrom(body, seen) ==
    LET more == UNION {{e.target : e \in Edges(body, bb)} : bb \in seen}
    IN IF more \subseteq seen THEN seen
       ELSE ReachableFrom(body, seen \cup more)

AllBlocksReachable(body) ==
    ReachableFrom(body, {START_BLOCK}) = BasicBlocks(body)

HasBackEdge(body) ==
    \E bb \in BasicBlocks(body) : \E e \in Edges(body, bb) : e.target <= bb

\* The blocks on a CFG path from a block of seen that does not pass
\* through the block avoid.
RECURSIVE ReachableAvoiding(_, _, _)
ReachableAvoiding(body, seen, avoid) ==
    LET more == UNION {{e.target : e \in Edges(body, bb)} : bb \in seen}
                \ {avoid}
    IN IF more \subseteq seen THEN seen
       ELSE ReachableAvoiding(body, seen \cup more, avoid)

\* d is on every CFG path from the entry block to bb.
Dominates(body, d, bb) ==
    d = bb \/ bb \notin ReachableAvoiding(body, {START_BLOCK} \ {d}, d)

\* The back-edges: the edges of reachable blocks to a block that dominates
\* them.
BackEdges(body) ==
    UNION {{<<bb, e.target>> : e \in
              {x \in Edges(body, bb) : Dominates(body, x.target, bb)}}
           : bb \in ReachableFrom(body, {START_BLOCK})}

\* ------------------------------------------------------------- claims
\* C1: when the driver seeded with all blocks has drained its worklist,
\* joining the state emitted for any CFG edge (b1 -> b2) from entry[b1]
\* into entry[b2] leaves entry[b2] unchanged.
FixpointPostCondition ==
    (Drained /\ seeding = "all") =>
        \A b1 \in BasicBlocks(mir) :
            LET res_vec == emitted(mir, b1, entry_state[b1])
            IN \A i \in 1..Len(res_vec) :
                  join(entry_state[res_vec[i][1]], res_vec[i][2])
                      = entry_state[res_vec[i][1]]

\* A drained all-seeded run over a body with a back-edge in which a
\* definition flowed along an edge.
FixpointReached ==
    /\ Drained /\ seeding = "all"
    /\ HasBackEdge(mir)
    /\ \E bb \in BasicBlocks(mir) : entry_state[bb] # new_bottom

\* C2: the driver eventually empties its worklist, whatever the body and
\* the order in which pending blocks are popped.
Terminates == <>Drained

SpecLive == Spec /\ WF_vars(Next)

\* A drained run over a body with a back-edge in which a block was
\* entered with two different states.
DrainedAfterRevisit ==
    /\ Drained
    /\ HasBackEdge(mir)
    /\ \E bb \in BasicBlocks(mir) : revisit_count[bb] >= 2

\* C3: for a fixed body and seeding, every pop order ends in the mapping
\* block -> entry state that popping the least block first ends in.
OrderIndependent ==
    Drained => entry_state = final_entry_state(mir, seeding)

\* A drained run that revisited a block and holds a definition.
DrainedWithDefinitions ==
    /\ Drained
    /\ Cardinality(BasicBlocks(mir)) >= 2
    /\ \E bb \in BasicBlocks(mir) :
          revisit_count[bb] >= 1 /\ entry_state[bb] # new_bottom

\* C4 as stated: seeding the worklist with the entry block only ends in
\* the mapping that seeding it with all blocks ends in.
SeedingIndependent ==
    Drained => entry_state = final_entry_state(mir, "all")

\* C4 as amended: the mapping reached from either seeding is contained,
\* variable by variable, in the one reached with all blocks seeded, and
\* the all-seeded one satisfies the fixpoint post-condition.
SeedingContained ==
    Drained =>
        LET all == final_entry_state(mir, "all")
        IN /\ \A bb \in BasicBlocks(mir) : \A v \in Locals :
                 SetOf(entry_state[bb], v) \subseteq SetOf(all[bb], v)
           /\ \A b1 \in BasicBlocks(mir) :
                 LET res_vec == emitted(mir, b1, all[b1])
                 IN \A i \in 1..Len(res_vec) :
                       join(all[res_vec[i][1]], res_vec[i][2])
                           = all[res_vec[i][1]]

\* An entry-seeded run over a body whose blocks are all reachable from the
\* entry block that drained with less than the all-seeded mapping.
EntrySeededSmaller ==
    /\ Drained /\ seeding = "entry"
    /\ AllBlocksReachable(mir)
    /\ entry_state # final_entry_state(mir, "all")

\* C5: at the all-seeded fixpoint, definition site d of v is in
\* entry[b][v] iff the CFG has a path from d to the entry of b without
\* another definition of v.
MayReachExact ==
    (Drained /\ seeding = "all") =>
        \A bb \in BasicBlocks(mir) : \A v \in Locals :
            SetOf(entry_state[bb], v) = MayReach(mir, bb, v)

\* A drained run where one definition of a local reaches a block entry
\* and another definition of the same local does not.
ReachesAndKilled ==
    /\ Drained /\ seeding = "all"
    /\ \E bb \in BasicBlocks(mir) : \E v \in Locals :
          /\ entry_state[bb] # new_bottom
          /\ SetOf(entry_state[bb], v) # {}
          /\ DefSites(mir, v) \ SetOf(entry_state[bb], v) # {}

\* ------------------------------------- the domain operations, called once
\* The body they are called on: block 0 holds up to MaxStmts statements of
\* any kind and any terminator; its successors bb1 and bb2 are empty.
FixtureStatements ==
    AssignStatements \cup {Assign(p) : p \in ProjectedPlaces} \cup {Nop}

FixtureTerminators ==
    {Return, Goto(1), SwitchInt(1, 2), SwitchInt(1, 1)}
    \cup {Call(destination, cleanup)
          : destination \in {None} \cup
                {Some(<<p, 1>>) : p \in BarePlaces \cup ProjectedPlaces},
            cleanup \in {None, Some(2)}}

Fixture(statements, terminator) ==
    [bb \in 0..2 |->
        IF bb = START_BLOCK
        THEN [statements |-> statements, terminator |-> terminator]
        ELSE [statements |-> <<>>, terminator |-> Return]]

\* The states join and the transfer functions build from the empty state
\* over a body: any set of keys, each with a non-empty set of definition
\* sites of that local; sites is the set of all the definition sites held.
StateOf(body, sites) ==
    [l \in {k \in Locals : sites \cap DefSites(body, k) # {}} |->
        sites \cap DefSites(body, l)]

AllDefSites(body) == UNION {DefSites(body, l) : l \in Locals}

\* All the states over a body.
States(body) ==
    Bind([l \in Locals |-> DefSites(body, l)],
         LAMBDA ds :
           {[l \in {k \in Locals : sites \cap ds[k] # {}} |-> sites \cap ds[l]]
            : sites \in SUBSET UNION {ds[l] : l \in Locals}})

InitOps ==
    /\ \E k \in 0..MaxStmts :
         \E statements \in [1..k -> FixtureStatements] :
           \E terminator \in FixtureTerminators :
              mir = Fixture(statements, terminator)
    /\ seeding = "all"
    /\ fault = None
    /\ LET d == driver_init(mir, seeding)
       IN /\ entry_state = d.entry_state
          /\ revisit_count = d.revisit_count
          /\ worklist = d.worklist
          /\ status = d.status
    /\ steps = 0
    /\ peer = None
    /\ NoMacro
    /\ \E sites \in SUBSET AllDefSites(mir) : self = StateOf(mir, sites)
    /\ \E sites \in SUBSET AllDefSites(mir) : other = StateOf(mir, sites)
    /\ old_self = self
    /\ call = "none"
    /\ at = Location(START_BLOCK, 0)
    /\ ret = NoReturn

\* self.join(&other)
CallJoin ==
    /\ call = "none"
    /\ self' = join(self, other)
    /\ call' = "join"
    /\ ret' = Ok(<<>>)
    /\ UNCHANGED <<driverVars, other, old_self, at>>

\* self.apply_statement_effect(&location, mir)
CallApplyStatementEffect(location) ==
    /\ call = "none"
    /\ location \in StatementLocations(mir)
    /\ \E r \in {apply_statement_effect(self, location, mir)} :
          /\ self' = r.value
          /\ ret' = [r EXCEPT !.value = <<>>]
    /\ call' = "apply_statement_effect"
    /\ at' = location
    /\ UNCHANGED <<driverVars, other, old_self>>

\* self.apply_terminator_effect(&location, mir)
CallApplyTerminatorEffect(bb) ==
    /\ call = "none"
    /\ ret' = apply_terminator_effect(self, terminator_loc(mir, bb), mir)
    /\ call' = "apply_terminator_effect"
    /\ at' = terminator_loc(mir, bb)
    /\ UNCHANGED <<driverVars, self, other, old_self>>

\* apply_statement_effect on self for the statements of bb in index order,
\* as step 2 of the driver's iteration calls it.
CallApplyStatements(bb) ==
    /\ call = "none"
    /\ \E r \in {apply_statements(self, mir, bb, 1)} :
          /\ self' = r.value
          /\ ret' = [r EXCEPT !.value = <<>>]
    /\ call' = "apply_statements"
    /\ at' = Location(bb, 0)
    /\ UNCHANGED <<driverVars, other, old_self>>

\* self.widen(&other): the call returns or unwinds with a panic.
CallWiden ==
    /\ call = "none"
    /\ \E w \in {widen(self, other)} :
          /\ self' = w.self
          /\ ret' = IF w.panic THEN [result |-> "panic", value |-> <<>>]
                               ELSE Ok(<<>>)
    /\ call' = "widen"
    /\ UNCHANGED <<driverVars, other, old_self, at>>

NextOps ==
    \/ CallJoin
    \/ CallWiden
    \/ \E bb \in BasicBlocks(mir) : CallApplyStatements(bb)
    \/ \E bb \in BasicBlocks(mir) : \E i \in 0..MaxStmts :
          CallApplyStatementEffect(Location(bb, i))
    \/ \E bb \in BasicBlocks(mir) : CallApplyTerminatorEffect(bb)

SpecOps == InitOps /\ [][NextOps]_vars

\* The statement and the terminator the last call was about.
StatementAt == mir[at.block].statements[at.statement_index + 1]
TerminatorAt == mir[at.block].terminator

\* state with local mapped to exactly {location}, the other keys as they
\* were.
WithSingle(state, local, location) ==
    [l \in DOMAIN state \cup {local} |->
        IF l = local THEN {location} ELSE state[l]]

\* C6: apply_statement_effect at an assignment to a bare local v leaves v
\* mapped to exactly {location} and every other variable as it was.
StrongUpdate ==
    (/\ call = "apply_statement_effect"
     /\ StatementAt.kind = "Assign"
     /\ StatementAt.place[1].projection = <<>>) =>
        LET v == StatementAt.place[1].local
        IN /\ ret.result = "Ok"
           /\ v \in DOMAIN self /\ self[v] = {at}
           /\ DOMAIN self \ {v} = DOMAIN old_self \ {v}
           /\ \A u \in DOMAIN old_self \ {v} : self[u] = old_self[u]

\* A strong update of a local that had another definition, in a state
\* holding another local too.
StrongUpdateKilled ==
    /\ call = "apply_statement_effect"
    /\ StatementAt.kind = "Assign"
    /\ StatementAt.place[1].projection = <<>>
    /\ LET v == StatementAt.place[1].local
       IN /\ v \in DOMAIN old_self /\ old_self[v] \ {at} # {}
          /\ DOMAIN old_self \ {v} # {}

\* The last call was apply_terminator_effect on a call with a bare local
\* destination and a cleanup block.
CallWithCleanup ==
    /\ call = "apply_terminator_effect"
    /\ TerminatorAt.kind = "Call"
    /\ TerminatorAt.destination # None
    /\ TerminatorAt.destination[1][1].projection = <<>>
    /\ TerminatorAt.cleanup # None

\* C7: for a call with destination (x, B1) and cleanup B2, the state
\* emitted for B1 is the receiver with x mapped to exactly {location}, the
\* state emitted for B2 is the receiver unchanged.
CallSplit ==
    CallWithCleanup =>
        LET x == TerminatorAt.destination[1][1].local
            B1 == TerminatorAt.destination[1][2]
            B2 == TerminatorAt.cleanup[1]
        IN /\ ret.result = "Ok"
           /\ {ret.value[i] : i \in 1..Len(ret.value)}
                 = {<<B1, WithSingle(old_self, x, at)>>, <<B2, old_self>>}
           /\ Len(ret.value) = 2

\* Such a call from a state where x has another definition and another
\* local is held.
CallSplitKilled ==
    /\ CallWithCleanup
    /\ LET x == TerminatorAt.destination[1][1].local
       IN /\ x \in DOMAIN old_self /\ old_self[x] # {at}
          /\ DOMAIN old_self \ {x} # {}

\* C8: for a terminator that is not a call, apply_terminator_effect
\* returns one pair per successor, each with the receiver's state.
NonCallDefinesNothing ==
    (call = "apply_terminator_effect" /\ TerminatorAt.kind # "Call") =>
        /\ ret.result = "Ok"
        /\ Len(ret.value) = Len(TerminatorAt.targets)
        /\ \A i \in 1..Len(TerminatorAt.targets) :
              ret.value[i] = <<TerminatorAt.targets[i], old_self>>

\* A terminator with two successors, from a state that holds definitions.
BranchEmitted ==
    /\ call = "apply_terminator_effect"
    /\ TerminatorAt.kind = "SwitchInt"
    /\ old_self # new_bottom

\* C9: after a.join(b) the keys of a are those of the old a and of b, and
\* every local's set is the union of its sets in the old a and in b.
JoinIsUnion ==
    call = "join" =>
        /\ DOMAIN self = DOMAIN old_self \cup DOMAIN other
        /\ \A v \in Locals :
              SetOf(self, v) = SetOf(old_self, v) \cup SetOf(other, v)

\* A join of two states that hold different sets for the same key, the
\* second holding a key the first does not.
JoinMerged ==
    /\ call = "join"
    /\ DOMAIN other \ DOMAIN old_self # {}
    /\ \E v \in DOMAIN old_self \cap DOMAIN other :
          /\ old_self[v] \ other[v] # {}
          /\ other[v] \ old_self[v] # {}

\* C10: joining a state with a copy of itself leaves it equal to what it
\* was.
JoinIdempotent ==
    (call = "join" /\ other = old_self) => self = old_self

\* A join of a state holding two locals with a copy of itself.
JoinedWithCopy ==
    /\ call = "join" /\ other = old_self
    /\ Cardinality(DOMAIN old_self) >= 2

\* C11: joining b into a gives the state that joining a into b gives.
JoinCommutative ==
    call = "join" => self = join(other, old_self)

\* A join into a state that holds a key the other state does not, the two
\* holding different sets for a shared key.
JoinedUnequal ==
    /\ call = "join"
    /\ DOMAIN old_self \ DOMAIN other # {}
    /\ \E v \in DOMAIN old_self \cap DOMAIN other :
          /\ old_self[v] \ other[v] # {}
          /\ other[v] \ old_self[v] # {}

\* C12: joining c into (a joined with b) gives the state that joining
\* (b joined with c) into a gives, for every state c.
JoinAssociative ==
    call = "join" =>
        \A c \in States(mir) : join(self, c) = join(old_self, join(other, c))

\* A join of a and b for which a state c exists such that the three hold
\* pairwise different sets for a shared key and b a key a does not hold.
JoinedThree ==
    /\ call = "join"
    /\ DOMAIN other \ DOMAIN old_self # {}
    /\ \E c \in States(mir) :
         \E v \in DOMAIN old_self \cap DOMAIN other \cap DOMAIN c :
            /\ old_self[v] # other[v]
            /\ other[v] # c[v]
            /\ old_self[v] # c[v]

\* C13: apply_statement_effect leaves the state as it was, keys and sets,
\* at every statement that is not an assignment and at every assignment
\* whose target place has a projection.
NoOpStatement ==
    (/\ call = "apply_statement_effect"
     /\ \/ StatementAt.kind # "Assign"
        \/ StatementAt.place[1].projection # <<>>) =>
        /\ ret.result = "Ok"
        /\ self = old_self

\* apply_statement_effect at an assignment to a projection of a local
\* whose set in the state holds definitions, after a statement of another
\* kind in the same block.
ProjectedAssignPassed ==
    /\ call = "apply_statement_effect"
    /\ StatementAt.kind = "Assign"
    /\ StatementAt.place[1].projection # <<>>
    /\ SetOf(old_self, StatementAt.place[1].local) # {}
    /\ \E i \in 1..Len(mir[at.block].statements) :
          mir[at.block].statements[i].kind # "Assign"

\* The index of the last statement of bb that assigns to the bare local v.
LastAssign(body, bb, v) ==
    CHOOSE j \in AssignsAfter(body, bb, v, 1) :
        \A i \in AssignsAfter(body, bb, v, 1) : i <= j

\* C14: after apply_statement_effect on all the statements of a block in
\* index order, every local assigned in the block maps to exactly the
\* location of its last assignment and every other local has the set it
\* had before.
KillGenBlock ==
    call = "apply_statements" =>
        /\ ret.result = "Ok"
        /\ \A v \in Locals :
              IF AssignsAfter(mir, at.block, v, 1) # {}
              THEN /\ v \in DOMAIN self
                   /\ self[v] =
                        {Location(at.block, LastAssign(mir, at.block, v) - 1)}
              ELSE /\ v \in DOMAIN self <=> v \in DOMAIN old_self
                   /\ SetOf(self, v) = SetOf(old_self, v)

\* The statements of a block that assigns twice to one local, applied to
\* a state that holds definitions of that local and of a local the block
\* does not assign.
BlockKilledEarlier ==
    /\ call = "apply_statements"
    /\ \E v \in Locals :
          /\ Cardinality(AssignsAfter(mir, at.block, v, 1)) >= 2
          /\ SetOf(old_self, v) # {}
          /\ \E u \in DOMAIN old_self \ {v} :
                AssignsAfter(mir, at.block, u, 1) = {}

\* ------------------------------------- the driver over a failing domain
\* The driver over a domain whose transfer function fails at one location
\* of the body, a statement or a terminator.
SomeFault ==
    fault \in {Some(location) : location \in
                  StatementLocations(mir) \cup
                  {terminator_loc(mir, bb) : bb \in BasicBlocks(mir)}}

InitErr == DriverInit /\ NoCall /\ SomeFault

SpecErr == InitErr /\ [][Next]_vars

\* The result a consumer can query: the frozen mapping, once the worklist
\* has drained.
stateAtBlockEntry(bb) == IF status = "done" THEN Some(entry_state[bb]) ELSE None

\* The iteration for bb calls the transfer function at the fault.
CallsFault(bb) == fault # None /\ fault[1].block = bb

\* C15: the iteration in which a transfer function returns an error ends
\* in the error outcome with every entry state and revisit count as it was
\* and nothing pushed, no step follows it, and no entry state can be
\* queried.
FailFastStep ==
    /\ status # "error"
    /\ \A bb \in BasicBlocks(mir) :
          (Step(bb) /\ CallsFault(bb)) =>
              /\ status' = "error"
              /\ entry_state' = entry_state
              /\ revisit_count' = revisit_count
              /\ worklist' = worklist (-) SetToBag({bb})
    /\ status' = "error" =>
          /\ \E bb \in BasicBlocks(mir) : Step(bb) /\ CallsFault(bb)
          /\ \A bb \in BasicBlocks(mir) : stateAtBlockEntry(bb)' = None

FailFast == [][FailFastStep]_vars

\* The analysis ended in the error outcome after a definition had been
\* propagated, with blocks still pending.
FailedMidway ==
    /\ status = "error"
    /\ Pending # {}
    /\ \E bb \in BasicBlocks(mir) : entry_state[bb] # new_bottom

\* C16: over a body of B blocks with a single back-edge and k definition
\* sites, the driver seeded with all blocks never pops more than
\* B * (k + 1) blocks, whatever the pop order.
StepBound ==
    (seeding = "all" /\ Cardinality(BackEdges(mir)) = 1) =>
        steps <= Cardinality(BasicBlocks(mir))
                 * (Cardinality(AllDefSites(mir)) + 1)

\* A drained all-seeded run over a body with a single back-edge that
\* popped a block again after a definition reached it.
LoopDrained ==
    /\ Drained /\ seeding = "all"
    /\ Cardinality(BackEdges(mir)) = 1
    /\ steps > Cardinality(BasicBlocks(mir))
    /\ \E bb \in BasicBlocks(mir) : revisit_count[bb] >= 2

\* C17: widen never returns: whatever the two states, the call ends in a
\* panic.
WidenPanics ==
    call = "widen" => ret.result = "panic"

\* widen called on a state, with a previous state that holds less.
WidenCalled ==
    /\ call = "widen"
    /\ old_self # other
    /\ \A v \in Locals : SetOf(other, v) \subseteq SetOf(old_self, v)
    /\ other # new_bottom

\* C18: need_to_widen is false for the revisit count of every block, and
\* the driver never ends in the panic of widen.
WidenNeverReached ==
    /\ status # "panicked"
    /\ \A bb \in BasicBlocks(mir) : ~need_to_widen(revisit_count[bb])

\* The entry state of a block changed for the second time and the block
\* is pending again: the driver runs on without widening.
RevisitedTwice ==
    /\ status = "running"
    /\ \E bb \in Pending : revisit_count[bb] >= 2

\* C19: before the first block is popped, the entry state of the entry
\* block is new_initial, that of every other block is new_bottom, and
\* both are the empty mapping: no local has a reaching definition.
InitialStatesEmpty ==
    steps = 0 =>
        /\ entry_state[START_BLOCK] = new_initial
        /\ \A bb \in BasicBlocks(mir) \ {START_BLOCK} :
              entry_state[bb] = new_bottom
        /\ new_initial = new_bottom
        /\ \A bb \in BasicBlocks(mir) :
              /\ DOMAIN entry_state[bb] = {}
              /\ \A v \in Locals : SetOf(entry_state[bb], v) = {}

\* The start of the analysis of a body of several blocks that holds
\* definitions, the entry block among the pending blocks.
AnalysisStart ==
    /\ steps = 0 /\ status = "running"
    /\ START_BLOCK \in Pending
    /\ Cardinality(BasicBlocks(mir)) >= 2
    /\ AllDefSites(mir) # {}

\* The pairs of the returned list that are for block bb.
PairsFor(bb) == {i \in 1..Len(ret.value) : ret.value[i][1] = bb}

\* C20: for a call, apply_terminator_effect returns one pair for the
\* success block iff the call has a destination, one pair for the cleanup
\* block iff it has one, and no other pair; the cleanup pair and the
\* success pair of a destination that is not a bare local carry the
\* receiver's state.
CallEdgeShapes ==
    (call = "apply_terminator_effect" /\ TerminatorAt.kind = "Call") =>
        LET destination == TerminatorAt.destination
            cleanup == TerminatorAt.cleanup
        IN /\ ret.result = "Ok"
           /\ Len(ret.value) = Len(destination) + Len(cleanup)
           /\ destination # None =>
                 /\ Cardinality(PairsFor(destination[1][2])) = 1
                 /\ as_local(destination[1][1]) = None =>
                       \A i \in PairsFor(destination[1][2]) :
                           ret.value[i][2] = old_self
           /\ cleanup # None =>
                 /\ Cardinality(PairsFor(cleanup[1])) = 1
                 /\ \A i \in PairsFor(cleanup[1]) : ret.value[i][2] = old_self
           /\ (destination = None /\ cleanup = None) => ret.value = <<>>

\* A call whose destination is a projection of a local the state holds
\* definitions of, with a cleanup block.
CallToProjection ==
    /\ call = "apply_terminator_effect"
    /\ TerminatorAt.kind = "Call"
    /\ TerminatorAt.destination # None
    /\ TerminatorAt.destination[1][1].projection # <<>>
    /\ TerminatorAt.cleanup # None
    /\ SetOf(old_self, TerminatorAt.destination[1][1].local) # {}

\* ------------------------------------------ queries of the frozen result
\* The state before statement n (from 0) of bb: apply_statement_effect for
\* the statements before it, on a copy of the state at the entry of bb.
RECURSIVE replay(_, _, _, _)
replay(entry, body, bb, n) ==
    IF n = 0 THEN entry
    ELSE apply_statement_effect(replay(entry, body, bb, n - 1),
                                Location(bb, n - 1), body).value

\* A consumer asks for the state before statement n of bb, or before the
\* terminator of bb, once the mapping is frozen.
StateBefore(bb, n) ==
    /\ status = "done"
    /\ n <= Len(mir[bb].statements)
    /\ self' = replay(entry_state[bb], mir, bb, n)
    /\ old_self' = entry_state[bb]
    /\ call' = "stateBefore"
    /\ at' = Location(bb, n)
    /\ UNCHANGED <<driverVars, other, ret>>

NextQuery ==
    \/ Next
    \/ \E bb \in BasicBlocks(mir) : \E n \in 0..MaxSize : StateBefore(bb, n)

SpecQuery == Init /\ [][NextQuery]_vars

\* The statements of bb before index n (from 0) that assign to the bare
\* local v.
AssignsBefore(body, bb, v, n) ==
    {j \in AssignsAfter(body, bb, v, 1) : j <= n}

\* C21: whatever was queried before, the state answered for (b, i) is the
\* one fixed by the frozen entry state of b and the statements before i,
\* every local assigned before i mapped to its last such assignment and
\* every other local as at the entry of b, and the frozen mapping is the
\* one the driver drained with.
ReplayDeterministic ==
    status = "done" =>
        LET frozen == final_entry_state(mir, seeding)
        IN /\ entry_state = frozen
           /\ call = "stateBefore" =>
                 \A v \in Locals :
                    LET before == AssignsBefore(mir, at.block, v,
                                                at.statement_index)
                    IN IF before = {}
                       THEN /\ v \in DOMAIN self
                                 <=> v \in DOMAIN frozen[at.block]
                            /\ SetOf(self, v) = SetOf(frozen[at.block], v)
                       ELSE /\ v \in DOMAIN self
                            /\ self[v] =
                                 {Location(at.block,
                                           (CHOOSE j \in before :
                                               \A i \in before : i <= j) - 1)}

\* A query for a state in the middle of a block whose entry state holds a
\* definition that a statement before the queried one kills.
ReplayedMidBlock ==
    /\ call = "stateBefore"
    /\ at.statement_index >= 1
    /\ \E v \in DOMAIN old_self : self[v] # old_self[v]

\* C22: apply_terminator_effect leaves the state it is called on as it
\* was, whatever the terminator; of the states a call with a bare local
\* destination returns, the one for the success block has the strong
\* update and any other is the receiver's state.
TerminatorNotInPlace ==
    call = "apply_terminator_effect" =>
        /\ self = old_self
        /\ (TerminatorAt.kind = "Call" /\ TerminatorAt.destination # None
            /\ as_local(TerminatorAt.destination[1][1]) # None) =>
              LET x == TerminatorAt.destination[1][1].local
                  B1 == TerminatorAt.destination[1][2]
              IN /\ \A i \in PairsFor(B1) : ret.value[i][2][x] = {at}
                 /\ \A i \in 1..Len(ret.value) \ PairsFor(B1) :
                       ret.value[i][2] = old_self

\* A call that defines a local the receiver holds no definition of, with
\* a cleanup block.
CallDefinedFresh ==
    /\ CallWithCleanup
    /\ TerminatorAt.destination[1][1].local \notin DOMAIN old_self
    /\ old_self # new_bottom

\* The blocks the terminator of bb has an edge to.
Targets(body, bb) == {e.target : e \in Edges(body, bb)}

\* C23: the iteration for the popped block b leaves the entry state, the
\* revisit count and the pending status of every block that is no target
\* of an edge of b's terminator as they were after the pop.
IterationFrameStep ==
    \A bb \in BasicBlocks(mir) :
        Step(bb) =>
            \A c \in BasicBlocks(mir) \ Targets(mir, bb) :
                /\ entry_state'[c] = entry_state[c]
                /\ revisit_count'[c] = revisit_count[c]
                /\ c \in BagToSet(worklist') <=> c \in Pending \ {bb}

IterationFrame == [][IterationFrameStep]_vars

\* A processed block that is not its own successor, whose statements
\* define a local: the definition is in the entry state of a successor and
\* not in its own.
DefinitionLeftBlock ==
    \E bb \in BasicBlocks(mir) \ Pending : \E v \in Locals :
        /\ bb \notin Targets(mir, bb)
        /\ AssignsAfter(mir, bb, v, 1) # {}
        /\ SetOf(entry_state[bb], v) = {}
        /\ \E c \in Targets(mir, bb) :
              \E l \in SetOf(entry_state[c], v) : l.block = bb

\* C24, one iteration: a target of the popped block whose entry state the
\* joins changed has its revisit count raised and is pending; one whose
\* entry state they left alone keeps its revisit count and its pending
\* status.
WorklistStep ==
    \A bb \in BasicBlocks(mir) :
        Step(bb) =>
            \A c \in Targets(mir, bb) :
                IF entry_state'[c] # entry_state[c]
                THEN /\ revisit_count'[c] > revisit_count[c]
                     /\ c \in BagToSet(worklist')
                ELSE /\ revisit_count'[c] = revisit_count[c]
                     /\ c \in BagToSet(worklist') <=> c \in Pending \ {bb}

\* C24: the worklist never holds a block twice, and every iteration
\* enqueues exactly the successors whose entry state it changed.
WorklistDiscipline ==
    /\ [](\A bb \in BasicBlocks(mir) : CopiesIn(bb, worklist) <= 1)
    /\ [][WorklistStep]_vars

\* A block pending after its entry state changed, next to a block whose
\* entry state a join left alone and that is not pending.
EnqueuedOnChange ==
    /\ status = "running"
    /\ \E c \in Pending : revisit_count[c] >= 1
    /\ \E bb \in BasicBlocks(mir) \ Pending : \E c \in Targets(mir, bb) :
          /\ c \notin Pending
          /\ entry_state[c] # new_bottom
          /\ emitted(mir, bb, entry_state[bb]) # <<>>

\* ------------------------------------------- two bodies analysed at once
\* A second driver instance, with its own body and its own driver state,
\* seeded with all blocks.
Instance(body) == [mir |-> body, driver |-> driver_init(body, "all")]

\* The body of the second instance: n blocks, the blocks k+1..n still to
\* be chosen within the budget left.
RECURSIVE ChoosePeer(_, _, _, _)
ChoosePeer(k, budget, n, acc) ==
    IF k = n THEN peer = Instance([bb \in 0..(n - 1) |-> acc[bb + 1]])
    ELSE \E s \in 0..budget : \E d \in BlocksOfSize(s, n) :
            ChoosePeer(k + 1, budget - s, n, Append(acc, d))

\* Two bodies of at most MaxSize blocks, statements and edges together,
\* each with its driver instance at its initialization.
InitPair ==
    /\ \E size \in 1..(MaxSize - 1) :
          /\ \E n \in 1..size : ChooseBody(0, size - n, n, <<>>)
          /\ \E n \in 1..(MaxSize - size) :
                ChoosePeer(0, MaxSize - size - n, n, <<>>)
    /\ seeding \in {"all", "entry"}
    /\ LET d == driver_init(mir, seeding)
       IN /\ entry_state = d.entry_state
          /\ revisit_count = d.revisit_count
          /\ worklist = d.worklist
          /\ status = d.status
    /\ steps = 0
    /\ NoCall /\ NoFault /\ NoMacro

\* An iteration of instance i on a shared array of entry states: the
\* entry states it stores show in the other instance too.
process_instance_shared(drivers, bodies, i, bb) ==
    Bind(process_block(pop(drivers[i], bb), bodies[i], bb),
         LAMBDA d :
           [j \in 1..2 |->
              IF j = i THEN d
              ELSE [drivers[j] EXCEPT !.entry_state =
                      [c \in DOMAIN @ |->
                          IF c \in DOMAIN d.entry_state
                          THEN d.entry_state[c] ELSE @[c]]]])

\* An iteration of instance i for its pending block bb: only the driver
\* state of instance i is replaced.
process_instance(drivers, bodies, i, bb) ==
    [drivers EXCEPT ![i] = process_block(pop(@, bb), bodies[i], bb)]

\* The freezing of instance i.
freeze_instance(drivers, i) == [drivers EXCEPT ![i].status = "done"]

Drivers == <<Driver(entry_state, revisit_count, worklist, status),
             peer.driver>>
Bodies == <<mir, peer.mir>>

\* The instances after a step that leaves them as drivers.
PairBecomes(drivers) ==
    /\ entry_state' = drivers[1].entry_state
    /\ revisit_count' = drivers[1].revisit_count
    /\ worklist' = drivers[1].worklist
    /\ status' = drivers[1].status
    /\ peer' = [peer EXCEPT !.driver = drivers[2]]

\* Instance i pops its pending block bb and processes it.
PairStep(i, bb) ==
    /\ Drivers[i].status = "running"
    /\ bb \in BagToSet(Drivers[i].worklist)
    /\ \E drivers \in {process_instance(Drivers, Bodies, i, bb)} :
          PairBecomes(drivers)
    /\ steps' = IF i = 1 THEN steps + 1 ELSE steps
    /\ UNCHANGED <<mir, seeding, fault, macroVars, callVars>>

\* The worklist of instance i is empty: its mapping is frozen.
PairFreeze(i) ==
    /\ Drivers[i].status = "running"
    /\ BagToSet(Drivers[i].worklist) = {}
    /\ PairBecomes(freeze_instance(Drivers, i))
    /\ UNCHANGED <<mir, seeding, fault, steps, macroVars, callVars>>

NextPair ==
    \E i \in 1..2 :
       \/ \E bb \in BasicBlocks(Bodies[i]) : PairStep(i, bb)
       \/ PairFreeze(i)

SpecPair == InitPair /\ [][NextPair]_vars

\* A step changes the driver state of one instance only.
OneInstanceStep ==
    \/ peer' = peer
    \/ UNCHANGED <<entry_state, revisit_count, worklist, status>>

\* C25: however the steps of the two instances interleave, the mapping
\* each instance freezes is the one it reaches when run alone, and no step
\* changes the state of both.
InstancesIndependent ==
    /\ [](/\ status = "done" => entry_state = final_entry_state(mir, seeding)
          /\ peer.driver.status = "done" =>
                peer.driver.entry_state = final_entry_state(peer.mir, "all"))
    /\ [][OneInstanceStep]_vars

\* Both instances drained after each changed an entry state, on bodies
\* with a common block whose frozen entry states differ.
BothDrained ==
    /\ status = "done" /\ peer.driver.status = "done"
    /\ \E bb \in BasicBlocks(mir) : revisit_count[bb] >= 1
    /\ \E bb \in BasicBlocks(peer.mir) : peer.driver.revisit_count[bb] >= 1
    /\ \E bb \in BasicBlocks(mir) \cap BasicBlocks(peer.mir) :
          entry_state[bb] # peer.driver.entry_state[bb]

\* For every local, the set in state a is within the set in state b.
Within(a, b) ==
    /\ DOMAIN a \subseteq DOMAIN b
    /\ \A v \in DOMAIN a : a[v] \subseteq b[v]

\* C26: no iteration removes a key or an element from the entry state of
\* any block: each entry state is within the one that follows it.
EntryStatesGrowStep ==
    \A bb \in BasicBlocks(mir) : Within(entry_state[bb], entry_state'[bb])

EntryStatesGrow == [][EntryStatesGrowStep]_vars

\* The entry state of a block holds two definitions of one local after
\* having changed twice.
GrewTwice ==
    \E bb \in BasicBlocks(mir) :
        /\ revisit_count[bb] >= 2
        /\ \E v \in DOMAIN entry_state[bb] :
              Cardinality(entry_state[bb][v]) >= 2

\* Every key of the state holds a non-empty set of definition sites of
\* that local in the body.
Genuine(state, body) ==
    \A v \in DOMAIN state :
        /\ v \in Locals
        /\ state[v] # {}
        /\ state[v] \subseteq DefSites(body, v)

\* C27: join, apply_statement_effect and apply_terminator_effect, called
\* on states whose keys hold non-empty sets of definition sites of the
\* key, the empty state among them, give such states again.
OnlyDefinitionSites ==
    /\ Genuine(self, mir)
    /\ call = "apply_terminator_effect" =>
          \A i \in 1..Len(ret.value) : Genuine(ret.value[i][2], mir)

\* The statements of a block that assigns to a projection of a local and
\* to a bare local, applied to a state that then holds two keys.
ProjectionNotRecorded ==
    /\ call = "apply_statements"
    /\ Cardinality(DOMAIN self) >= 2
    /\ \E i, j \in 1..Len(mir[at.block].statements) :
          /\ mir[at.block].statements[i].kind = "Assign"
          /\ mir[at.block].statements[i].place[1].projection # <<>>
          /\ mir[at.block].statements[j].kind = "Assign"
          /\ mir[at.block].statements[j].place[1].projection = <<>>

\* C28: apply_statement_effect at a location applied to the join of two
\* states gives the join of its results on each, and
\* apply_terminator_effect emits for the join of two states, edge by
\* edge, the join of the states it emits for each; a state within another
\* is taken to a state within that of the other.
TransferDistributes ==
    /\ call = "apply_statement_effect" =>
          /\ apply_statement_effect(join(old_self, other), at, mir).value
                = join(self, apply_statement_effect(other, at, mir).value)
          /\ Within(old_self, other) =>
                Within(self, apply_statement_effect(other, at, mir).value)
    /\ call = "apply_terminator_effect" =>
          LET of_join == apply_terminator_effect(join(old_self, other), at,
                                                 mir).value
              of_other == apply_terminator_effect(other, at, mir).value
          IN /\ Len(of_join) = Len(ret.value)
             /\ Len(of_other) = Len(ret.value)
             /\ \A i \in 1..Len(ret.value) :
                   /\ of_join[i][1] = ret.value[i][1]
                   /\ of_other[i][1] = ret.value[i][1]
                   /\ of_join[i][2] = join(ret.value[i][2], of_other[i][2])

\* An assignment to a local applied to a state that holds a definition of
\* it, the other state holding another definition of it and another key.
AssignedInBoth ==
    /\ call = "apply_statement_effect"
    /\ StatementAt.kind = "Assign"
    /\ StatementAt.place[1].projection = <<>>
    /\ LET v == StatementAt.place[1].local
       IN /\ v \in DOMAIN old_self /\ v \in DOMAIN other
          /\ old_self[v] # other[v]
          /\ DOMAIN other \ {v} # {}

\* C29: the driver over the reaching-definitions domain never ends in the
\* error outcome: from the entry state of every block the statements and
\* the terminator of the block return Ok, and from every entry state of a
\* drained run so do a statement and a terminator of every kind.
NeverAnError ==
    /\ status # "error"
    /\ \A bb \in BasicBlocks(mir) :
          /\ apply_statements(entry_state[bb], mir, bb, 1).result = "Ok"
          /\ apply_terminator_effect(transfer(mir, bb, entry_state[bb]),
                                     terminator_loc(mir, bb), mir).result
                = "Ok"
    /\ Drained =>
          \A state \in {entry_state[bb] : bb \in BasicBlocks(mir)} :
             /\ \A stmt \in FixtureStatements :
                   apply_statement_effect(state, Location(START_BLOCK, 0),
                                          Fixture(<<stmt>>, Return)).result
                       = "Ok"
             /\ \A terminator \in FixtureTerminators :
                   apply_terminator_effect(state, Location(START_BLOCK, 0),
                                           Fixture(<<>>, terminator)).result
                       = "Ok"

\* A drained run over a body with a statement that is no assignment and
\* a call, which propagated a definition.
DeliveredResult ==
    /\ Drained
    /\ \E bb \in BasicBlocks(mir) : entry_state[bb] # new_bottom
    /\ \E bb \in BasicBlocks(mir) : mir[bb].terminator.kind = "Call"
    /\ \E bb \in BasicBlocks(mir) :
          \E i \in 1..Len(mir[bb].statements) :
             mir[bb].statements[i].kind # "Assign"

\* ------------------------------------------ prusti-specs: attribute rewriting
\* The most attributes on the item being rewritten.
MaxAttrs == 2

SpecAttributeKind ==
    {"Requires", "Ensures", "AfterExpiry", "AssertOnExpiry", "Pure",
     "Trusted", "Predicate", "Invariant", "GhostConstraint"}

\* A TokenStream is a sequence of token trees: identifiers, punctuation and
\* delimited groups.
Ident(ident) == [tree |-> "Ident", ident |-> ident]
Punct(ch) == [tree |-> "Punct", ch |-> ch]
Group(stream) == [tree |-> "Group", stream |-> stream]

\* The rewriter's parse of a specification: the identifier spec stands for
\* a stream it accepts, any other stream is one it rejects.
Parses(attr) == attr = <<Ident("spec")>>

\* An attribute of the item: the segments of its path, the identifier of
\* the first segment, the kind that identifier converts to, if any, and the
\* tokens after the path.
Attribute(segments, ident, kind, tokens) ==
    [segments |-> segments, ident |-> ident, kind |-> kind, tokens |-> tokens]

SpecItem(spec_type, attr) == [spec_type |-> spec_type, assertion |-> attr]

PanicResult(message) == [result |-> "panic", value |-> message]

Generated(items, attributes) ==
    Ok([items |-> items, attributes |-> attributes])

generate_for_requires(attr, item) ==
    IF ~Parses(attr) THEN Err("assertion")
    ELSE Generated(<<SpecItem("Precondition", attr)>>,
                   <<"prusti::pre_spec_id_ref">>)

generate_for_ensures(attr, item) ==
    IF ~Parses(attr) THEN Err("assertion")
    ELSE Generated(<<SpecItem("Postcondition", attr)>>,
                   <<"prusti::post_spec_id_ref">>)

generate_for_after_expiry(attr, item) ==
    IF ~Parses(attr) THEN Err("pledge")
    ELSE Generated(<<SpecItem("Pledge", attr)>>,
                   <<"prusti::pledge_spec_id_ref">>)

generate_for_assert_on_expiry(attr, item) ==
    IF ~Parses(attr) THEN Err("assert pledge")
    ELSE Generated(<<SpecItem("PledgeLhs", attr), SpecItem("PledgeRhs", attr)>>,
                   <<"prusti::assert_pledge_spec_id_ref_lhs",
                     "prusti::assert_pledge_spec_id_ref_rhs">>)

generate_for_pure(attr, item) ==
    IF attr # <<>>
    THEN Err("the #[pure] attribute does not take parameters")
    ELSE Generated(<<>>, <<"prusti::pure">>)

generate_for_trusted(attr, item) ==
    IF attr # <<>>
    THEN Err("the #[trusted] attribute does not take parameters")
    ELSE Generated(<<>>, <<"prusti::trusted">>)

\* The generator of one attribute of the list.  Ghost constraints are
\* generated outside this file: their output is kept opaque.
generate_for(kind, attr, item) ==
    CASE kind = "Requires" -> generate_for_requires(attr, item)
      [] kind = "Ensures" -> generate_for_ensures(attr, item)
      [] kind = "AfterExpiry" -> generate_for_after_expiry(attr, item)
      [] kind = "AssertOnExpiry" -> generate_for_assert_on_expiry(attr, item)
      [] kind = "Pure" -> generate_for_pure(attr, item)
      [] kind = "Trusted" -> generate_for_trusted(attr, item)
      [] kind = "GhostConstraint" ->
            IF ~Parses(attr) THEN Err("ghost constraint")
            ELSE Generated(<<SpecItem("GhostConstraint", attr)>>, <<>>)
      [] kind = "Predicate" -> PanicResult("unreachable")
      [] kind = "Invariant" -> PanicResult("unreachable")

\* The loop of generate_spec_and_assertions from the n-th attribute on: the
\* first error ends it.
RECURSIVE generate_from(_, _, _, _, _)
generate_from(prusti_attributes, item, n, generated_items, generated_attributes) ==
    IF n > Len(prusti_attributes)
    THEN Generated(generated_items, generated_attributes)
    ELSE LET rewriting_result ==
                 generate_for(prusti_attributes[n][1], prusti_attributes[n][2],
                              item)
         IN IF rewriting_result.result # "Ok"
            THEN rewriting_result
            ELSE generate_from(prusti_attributes, item, n + 1,
                     generated_items \o rewriting_result.value.items,
                     generated_attributes \o rewriting_result.value.attributes)

generate_spec_and_assertions(prusti_attributes, item) ==
    generate_from(prusti_attributes, item, 1, <<>>, <<>>)

\* The tokens extract_prusti_attributes keeps of an attribute of a kind:
\* the stream of its only group for the kinds that take a specification,
\* nothing for the others; any other shape panics.
extract_tokens(attr_kind, tokens) ==
    IF attr_kind \in {"Requires", "Ensures", "AfterExpiry", "AssertOnExpiry",
                      "GhostConstraint"}
    THEN IF tokens = <<>> THEN PanicResult("unwrap on None")
         ELSE IF tokens[1].tree # "Group" THEN PanicResult("force_matches")
         ELSE IF Len(tokens) > 1
              THEN PanicResult("Unexpected shape of an attribute.")
         ELSE Ok(tokens[1].stream)
    ELSE IF attr_kind \in {"Pure", "Trusted", "Predicate"}
    THEN IF tokens # <<>>
         THEN PanicResult("Unexpected shape of an attribute.")
         ELSE Ok(<<>>)
    ELSE PanicResult("type invariant on function")

\* The loop of extract_prusti_attributes from the n-th attribute on.
RECURSIVE extract_from(_, _, _, _)
extract_from(attrs, n, prusti_attributes, regular_attributes) ==
    IF n > Len(attrs)
    THEN Ok([item |-> [attrs |-> regular_attributes],
             prusti_attributes |-> prusti_attributes])
    ELSE LET attr == attrs[n]
         IN IF attr.segments = 1 /\ attr.kind # None
            THEN LET tokens == extract_tokens(attr.kind[1], attr.tokens)
                 IN IF tokens.result = "panic" THEN tokens
                    ELSE extract_from(attrs, n + 1,
                             Append(prusti_attributes,
                                    <<attr.kind[1], tokens.value>>),
                             regular_attributes)
            ELSE extract_from(attrs, n + 1, prusti_attributes,
                              Append(regular_attributes, attr))

extract_prusti_attributes(item) == extract_from(item.attrs, 1, <<>>, <<>>)

\* syn::parse2 of the item's tokens as a function item.
parse2(tokens) ==
    IF tokens.fn_item THEN Ok([attrs |-> tokens.attrs])
    ELSE Err("expected fn")

\* What the macro expands to: a compile error, a panic of the expansion, or
\* the spec items, the generated attributes and the item.
CompileError(message) ==
    [outcome |-> "compile_error", message |-> message, spec_items |-> <<>>,
     generated_attributes |-> <<>>, item |-> None]

Panicked(message) ==
    [outcome |-> "panic", message |-> message, spec_items |-> <<>>,
     generated_attributes |-> <<>>, item |-> None]

Expansion(spec_items, generated_attributes, item) ==
    [outcome |-> "tokens", message |-> "", spec_items |-> spec_items,
     generated_attributes |-> generated_attributes, item |-> Some(item)]

\* The message of the error, its backquotes left out.
PredicateMessage == "predicate! is incompatible with other Prusti attributes"

rewrite_prusti_attributes(kind, tokens, item_stream) ==
    LET parsed == parse2(item_stream)
    IN IF parsed.result = "Err" THEN CompileError(parsed.value)
       ELSE
       LET extracted == extract_prusti_attributes(parsed.value)
       IN IF extracted.result = "panic" THEN Panicked(extracted.value)
          ELSE
          LET item == extracted.value.item
              prusti_attributes ==
                  <<<<kind, tokens>>>> \o extracted.value.prusti_attributes
          IN IF \E n \in 1..Len(prusti_attributes) :
                   prusti_attributes[n][1] = "Predicate"
             THEN CompileError(PredicateMessage)
             ELSE LET generated ==
                          generate_spec_and_assertions(prusti_attributes, item)
                  IN CASE generated.result = "panic" ->
                             Panicked(generated.value)
                       [] generated.result = "Err" ->
                             CompileError(generated.value)
                       [] generated.result = "Ok" ->
                             Expansion(generated.value.items,
                                       generated.value.attributes, item)

\* The attributes a function item can carry: Prusti attributes of a kind,
\* with no tokens, one group, two groups or tokens that are no group, and
\* other attributes, one of them with a path of two segments.
PrustiAttributeNames ==
    {<<"requires", "Requires">>, <<"assert_on_expiry", "AssertOnExpiry">>,
     <<"pure", "Pure">>, <<"trusted", "Trusted">>,
     <<"predicate", "Predicate">>}

AttributeTokens ==
    {<<>>, <<Group(<<Ident("spec")>>)>>, <<Group(<<Ident("bad")>>)>>,
     <<Group(<<Ident("spec")>>), Group(<<Ident("spec")>>)>>,
     <<Punct("="), Ident("spec")>>}

ItemAttributes ==
    {Attribute(1, name[1], Some(name[2]), tokens)
     : name \in PrustiAttributeNames, tokens \in AttributeTokens}
    \cup {Attribute(1, "inline", None, <<>>),
          Attribute(1, "doc", None, <<Punct("="), Ident("text")>>),
          Attribute(2, "rustfmt", None, <<>>)}

\* The attribute the macro is called for: its kind and the tokens between
\* its parentheses.
OuterAttributes ==
    {<<kind, tokens>>
     : kind \in {"Requires", "Ensures", "AfterExpiry", "AssertOnExpiry"},
       tokens \in {<<Ident("spec")>>, <<Ident("bad")>>}}
    \cup {<<kind, tokens>>
          : kind \in {"Pure", "Trusted", "Predicate"},
            tokens \in {<<>>, <<Ident("spec")>>}}

\* The macro is called for an outer attribute on an item: a function item
\* with at most MaxAttrs attributes, or tokens that are no function item.
InitAttrs ==
    /\ mir = Fixture(<<>>, Return)
    /\ seeding = "all"
    /\ fault = None
    /\ LET d == driver_init(mir, seeding)
       IN /\ entry_state = d.entry_state
          /\ revisit_count = d.revisit_count
          /\ worklist = d.worklist
          /\ status = d.status
    /\ steps = 0
    /\ peer = None
    /\ NoCall
    /\ \E outer \in OuterAttributes :
          /\ outer_attr_kind = outer[1]
          /\ outer_attr_tokens = outer[2]
    /\ \/ item_tokens = [fn_item |-> FALSE, attrs |-> <<>>]
       \/ \E k \in 0..MaxAttrs :
             \E attrs \in [1..k -> ItemAttributes] :
                item_tokens = [fn_item |-> TRUE, attrs |-> attrs]
    /\ rewritten = None

\* The expansion of the macro.
Rewrite ==
    /\ rewritten = None
    /\ rewritten' =
          Some(rewrite_prusti_attributes(outer_attr_kind, outer_attr_tokens,
                                         item_tokens))
    /\ UNCHANGED <<mir, seeding, entry_state, revisit_count, worklist, status,
                   fault, steps, peer, outer_attr_kind, outer_attr_tokens,
                   item_tokens, callVars>>

NextAttrs == Rewrite

SpecAttrs == InitAttrs /\ [][NextAttrs]_vars

\* The Prusti attributes of the item: those with a path of one segment whose
\* identifier names a kind.
IsPrusti(attr) == attr.segments = 1 /\ attr.kind # None

\* The generated attributes that mark an attribute of a kind as processed.
Markers(kind) ==
    CASE kind = "Requires" -> <<"prusti::pre_spec_id_ref">>
      [] kind = "Ensures" -> <<"prusti::post_spec_id_ref">>
      [] kind = "AfterExpiry" -> <<"prusti::pledge_spec_id_ref">>
      [] kind = "AssertOnExpiry" ->
            <<"prusti::assert_pledge_spec_id_ref_lhs",
              "prusti::assert_pledge_spec_id_ref_rhs">>
      [] kind = "Pure" -> <<"prusti::pure">>
      [] kind = "Trusted" -> <<"prusti::trusted">>
      [] OTHER -> <<>>

RECURSIVE MarkersOf(_)
MarkersOf(kinds) ==
    IF kinds = <<>> THEN <<>>
    ELSE Markers(Head(kinds)) \o MarkersOf(Tail(kinds))

\* C30: rewrite_prusti_attributes rejects predicate mixing: when the outer
\* attribute or a Prusti attribute of the item is of kind Predicate, the
\* result is the compile error "`predicate!` is incompatible with other
\* Prusti attributes" with no spec item and no generated attribute;
\* otherwise the expansion completes, and the item it emits carries the
\* non-Prusti attributes in their original order while the generated
\* attributes follow the order outer attribute first, then the item's Prusti
\* attributes.
PredicateMixRejected ==
    rewritten # None =>
       LET result == rewritten[1]
           attrs == item_tokens.attrs
           prusti == SelectSeq(attrs, IsPrusti)
           regular == SelectSeq(attrs, LAMBDA attr : ~IsPrusti(attr))
           kinds == <<outer_attr_kind>>
                    \o [n \in 1..Len(prusti) |-> prusti[n].kind[1]]
       IN IF \E n \in 1..Len(kinds) : kinds[n] = "Predicate"
          THEN result = CompileError(PredicateMessage)
          ELSE /\ result.outcome # "panic"
               /\ result.outcome = "tokens" =>
                     /\ result.item = Some([attrs |-> regular])
                     /\ result.generated_attributes = MarkersOf(kinds)
====
